---------------------------- MODULE Spec2Model ----------------------------
(***************************************************************************)
(* Account hierarchies of the LSP lecture code.                            *)
(*                                                                         *)
(*   src/unnamed/part_000, lines 1-181   : DepositOnlyAccount,             *)
(*       WithdrawableAccount, SavingAccount, CurrentAccount,               *)
(*       FixedTermAccount, BankClient, main                                *)
(*   src/unnamed/part_000, lines 183-265 : BankAccount,                    *)
(*       FixedDepositAccount, main (history constraint)                    *)
(*   src/Lecture 06/.../ClassInvariants.cpp : BankAccount, CheatAccount    *)
(*                                                                         *)
(* The two programs that each define a class BankAccount are told apart    *)
(* by the class tags "BankAccount" (ClassInvariants.cpp) and               *)
(* "BankAccount_History" (part_000).                                       *)
(*                                                                         *)
(* Balances and amounts are C++ doubles.  They are drawn from small        *)
(* integers, on which double arithmetic and comparison are exact.          *)
(***************************************************************************)
EXTENDS Integers, Sequences, FiniteSets

VARIABLES
    cls,                  \* account -> its dynamic class, "none" when no object exists
    balance,              \* account -> the field `balance`
    last,                 \* the most recent call and what it reported to its caller
    mirror,               \* the same call replayed on the second variant (SpecSubst)
    withdrawableAccounts, \* BankClient::withdrawableAccounts
    depositOnlyAccounts,  \* BankClient::depositOnlyAccounts
    pc,                   \* position of BankClient::processTransactions
    i,                    \* index of the range-for loop processTransactions is in
    issued,               \* the calls processTransactions has made so far, in order
    start                 \* account -> balance when processTransactions was entered

vars == <<cls, balance, last, mirror, withdrawableAccounts, depositOnlyAccounts,
          pc, i, issued, start>>

clientVars == <<withdrawableAccounts, depositOnlyAccounts, pc, i, issued, start>>

---------------------------------------------------------------------------
(* Bounds of the exploration *)

NumAccounts == 1
MaxWithdrawable == 3
MaxDepositOnly == 2
MaxAmount == 3
MaxBalance == 6

(* Literals of BankClient::processTransactions *)

ClientDepositAmount == 1000
ClientWithdrawAmount == 500
DepositOnlyAmount == 5000

Ids == 1..NumAccounts
Amounts == (0 - MaxAmount)..MaxAmount
InRange(v) == (0 - MaxBalance) <= v /\ v <= MaxBalance

(* Balances an account of part_000 can hold when it is handed to a          *)
(* BankClient: 0 after construction, 100 after deposit(100), -600 after     *)
(* deposit(-600) (deposit takes any double).                                *)
StartBalances == {0 - 600, 0, 100}

---------------------------------------------------------------------------
(* Class hierarchy *)

DepositOnlyAccount == {"SavingAccount", "CurrentAccount", "FixedTermAccount"}
WithdrawableAccount == {"SavingAccount", "CurrentAccount"}
BankAccountFamily == {"BankAccount", "CheatAccount",
                      "BankAccount_History", "FixedDepositAccount"}
Classes == DepositOnlyAccount \cup BankAccountFamily
HasWithdraw == WithdrawableAccount \cup BankAccountFamily

(* What a call leaves behind: the field, what the caller was told, and     *)
(* whether it was told by an exception.                                    *)
Returned(bal) == [balance |-> bal, outcome |-> "ok", thrown |-> FALSE]
Printed(bal, what) == [balance |-> bal, outcome |-> what, thrown |-> FALSE]
Thrown(bal, what) == [balance |-> bal, outcome |-> what, thrown |-> TRUE]

NoCall == [op |-> "none", id |-> 0, cls |-> "none", amount |-> 0, before |-> 0,
           outcome |-> "none", thrown |-> FALSE]

Call(op, id, c, amount, before, r) ==
    [op |-> op, id |-> id, cls |-> c, amount |-> amount, before |-> before,
     outcome |-> r.outcome, thrown |-> r.thrown]

---------------------------------------------------------------------------
(* part_000, first program *)

SavingAccount_ctor == Returned(0)

SavingAccount_deposit_assigns(bal, amount) == Returned(amount)

SavingAccount_deposit(bal, amount) == Returned(bal + amount)

SavingAccount_withdraw_strict(bal, amount) ==
    IF bal > amount
    THEN Returned(bal - amount)
    ELSE Printed(bal, "insufficient_funds")

SavingAccount_withdraw(bal, amount) ==
    IF bal >= amount
    THEN Returned(bal - amount)
    ELSE Printed(bal, "insufficient_funds")

CurrentAccount_ctor == Returned(0)

CurrentAccount_deposit(bal, amount) == Returned(bal + amount)

CurrentAccount_withdraw_strict(bal, amount) ==
    IF bal > amount
    THEN Returned(bal - amount)
    ELSE Printed(bal, "insufficient_funds")

CurrentAccount_withdraw(bal, amount) ==
    IF bal >= amount
    THEN Returned(bal - amount)
    ELSE Printed(bal, "insufficient_funds")

FixedTermAccount_ctor == Returned(0)

FixedTermAccount_deposit_negates(bal, amount) == Returned(bal - amount)

FixedTermAccount_deposit(bal, amount) == Returned(bal + amount)

---------------------------------------------------------------------------
(* ClassInvariants.cpp *)

BankAccount_ctor_rejects_zero(b) ==
    IF b <= 0
    THEN Thrown(0, "invalid_argument")
    ELSE Returned(b)

BankAccount_ctor(b) ==
    IF b < 0
    THEN Thrown(0, "invalid_argument")
    ELSE Returned(b)

BankAccount_withdraw(bal, amount) ==
    IF bal - amount < 0
    THEN Thrown(bal, "insufficient_funds")
    ELSE Returned(bal - amount)

CheatAccount_ctor(b) == BankAccount_ctor(b)

CheatAccount_withdraw(bal, amount) == Returned(bal - amount)

---------------------------------------------------------------------------
(* part_000, second program (history constraint) *)

History_BankAccount_ctor(b) ==
    IF b < 0
    THEN Thrown(0, "invalid_argument")
    ELSE Returned(b)

History_BankAccount_withdraw(bal, amount) ==
    IF bal - amount < 0
    THEN Thrown(bal, "insufficient_funds")
    ELSE Returned(bal - amount)

FixedDepositAccount_ctor(b) == History_BankAccount_ctor(b)

FixedDepositAccount_withdraw(bal, amount) == Thrown(bal, "withdraw_not_allowed")

---------------------------------------------------------------------------
(* Constructor selection and virtual dispatch *)

ctor(c, b) ==
    CASE c = "SavingAccount"       -> SavingAccount_ctor
      [] c = "CurrentAccount"      -> CurrentAccount_ctor
      [] c = "FixedTermAccount"    -> FixedTermAccount_ctor
      [] c = "BankAccount"         -> BankAccount_ctor(b)
      [] c = "CheatAccount"        -> CheatAccount_ctor(b)
      [] c = "BankAccount_History" -> History_BankAccount_ctor(b)
      [] c = "FixedDepositAccount" -> FixedDepositAccount_ctor(b)

deposit(c, bal, amount) ==
    CASE c = "SavingAccount"    -> SavingAccount_deposit(bal, amount)
      [] c = "CurrentAccount"   -> CurrentAccount_deposit(bal, amount)
      [] c = "FixedTermAccount" -> FixedTermAccount_deposit(bal, amount)

withdraw(c, bal, amount) ==
    CASE c = "SavingAccount"       -> SavingAccount_withdraw(bal, amount)
      [] c = "CurrentAccount"      -> CurrentAccount_withdraw(bal, amount)
      [] c = "BankAccount"         -> BankAccount_withdraw(bal, amount)
      [] c = "CheatAccount"        -> CheatAccount_withdraw(bal, amount)
      [] c = "BankAccount_History" -> History_BankAccount_withdraw(bal, amount)
      [] c = "FixedDepositAccount" -> FixedDepositAccount_withdraw(bal, amount)

---------------------------------------------------------------------------
(* Spec: one caller constructing accounts of any class and calling them    *)

Init ==
    /\ cls = [id \in Ids |-> "none"]
    /\ balance = [id \in Ids |-> 0]
    /\ last = NoCall
    /\ mirror = NoCall
    /\ withdrawableAccounts = << >>
    /\ depositOnlyAccounts = << >>
    /\ pc = "idle"
    /\ i = 1
    /\ issued = << >>
    /\ start = [id \in Ids |-> 0]

(* new C() for the classes with a default constructor *)
New(id, c) ==
    LET r == ctor(c, 0) IN
    /\ cls[id] = "none"
    /\ c \in DepositOnlyAccount
    /\ cls' = [cls EXCEPT ![id] = c]
    /\ balance' = [balance EXCEPT ![id] = r.balance]
    /\ last' = Call("construct", id, c, 0, 0, r)
    /\ UNCHANGED <<mirror, clientVars>>

(* new C(b) for BankAccount and its subclasses; a throwing constructor     *)
(* yields no object                                                        *)
NewWithBalance(id, c, b) ==
    LET r == ctor(c, b) IN
    /\ cls[id] = "none"
    /\ c \in BankAccountFamily
    /\ IF r.thrown
       THEN UNCHANGED <<cls, balance>>
       ELSE /\ cls' = [cls EXCEPT ![id] = c]
            /\ balance' = [balance EXCEPT ![id] = r.balance]
    /\ last' = Call("construct", id, c, b, 0, r)
    /\ UNCHANGED <<mirror, clientVars>>

Deposit(id, amount) ==
    LET r == deposit(cls[id], balance[id], amount) IN
    /\ cls[id] \in DepositOnlyAccount
    /\ InRange(r.balance)
    /\ balance' = [balance EXCEPT ![id] = r.balance]
    /\ last' = Call("deposit", id, cls[id], amount, balance[id], r)
    /\ UNCHANGED <<cls, mirror, clientVars>>

Withdraw(id, amount) ==
    LET r == withdraw(cls[id], balance[id], amount) IN
    /\ cls[id] \in HasWithdraw
    /\ InRange(r.balance)
    /\ balance' = [balance EXCEPT ![id] = r.balance]
    /\ last' = Call("withdraw", id, cls[id], amount, balance[id], r)
    /\ UNCHANGED <<cls, mirror, clientVars>>

(* delete bankAccount: the object is gone, its slot can be constructed anew *)
Delete(id) ==
    /\ cls[id] # "none"
    /\ cls' = [cls EXCEPT ![id] = "none"]
    /\ balance' = [balance EXCEPT ![id] = 0]
    /\ last' = [NoCall EXCEPT !.op = "delete", !.id = id, !.cls = cls[id]]
    /\ UNCHANGED <<mirror, clientVars>>

Next ==
    \/ \E id \in Ids, c \in DepositOnlyAccount : New(id, c)
    \/ \E id \in Ids, c \in BankAccountFamily, b \in Amounts : NewWithBalance(id, c, b)
    \/ \E id \in Ids, amount \in Amounts : Deposit(id, amount)
    \/ \E id \in Ids, amount \in Amounts : Withdraw(id, amount)
    \/ \E id \in Ids : Delete(id)

Spec == Init /\ [][Next]_vars

---------------------------------------------------------------------------
(* SpecSubst: a SavingAccount and a CurrentAccount, both freshly           *)
(* constructed, driven by one sequence of calls                            *)

SavingId == 1
CurrentId == 2

InitSubst ==
    /\ cls = [id \in {SavingId, CurrentId} |->
                 IF id = SavingId THEN "SavingAccount" ELSE "CurrentAccount"]
    /\ balance = [id \in {SavingId, CurrentId} |->
                     IF id = SavingId THEN SavingAccount_ctor.balance
                                      ELSE CurrentAccount_ctor.balance]
    /\ last = NoCall
    /\ mirror = NoCall
    /\ withdrawableAccounts = << >>
    /\ depositOnlyAccounts = << >>
    /\ pc = "idle"
    /\ i = 1
    /\ issued = << >>
    /\ start = balance

BothDeposit(amount) ==
    LET r1 == deposit(cls[SavingId], balance[SavingId], amount)
        r2 == deposit(cls[CurrentId], balance[CurrentId], amount)
    IN
    /\ InRange(r1.balance)
    /\ InRange(r2.balance)
    /\ balance' = [balance EXCEPT ![SavingId] = r1.balance, ![CurrentId] = r2.balance]
    /\ last' = Call("deposit", SavingId, cls[SavingId], amount, balance[SavingId], r1)
    /\ mirror' = Call("deposit", CurrentId, cls[CurrentId], amount, balance[CurrentId], r2)
    /\ UNCHANGED <<cls, clientVars>>

BothWithdraw(amount) ==
    LET r1 == withdraw(cls[SavingId], balance[SavingId], amount)
        r2 == withdraw(cls[CurrentId], balance[CurrentId], amount)
    IN
    /\ InRange(r1.balance)
    /\ InRange(r2.balance)
    /\ balance' = [balance EXCEPT ![SavingId] = r1.balance, ![CurrentId] = r2.balance]
    /\ last' = Call("withdraw", SavingId, cls[SavingId], amount, balance[SavingId], r1)
    /\ mirror' = Call("withdraw", CurrentId, cls[CurrentId], amount, balance[CurrentId], r2)
    /\ UNCHANGED <<cls, clientVars>>

NextSubst ==
    \/ \E amount \in Amounts : BothDeposit(amount)
    \/ \E amount \in Amounts : BothWithdraw(amount)

SpecSubst == InitSubst /\ [][NextSubst]_vars

---------------------------------------------------------------------------
(* SpecClient: main's three accounts and a BankClient built from any two   *)
(* vectors of pointers to them.  The constructor copies whatever vectors   *)
(* it is given: an account may be listed twice, in both collections, or    *)
(* in none.                                                                *)

FixedTermId == 3

ClientIds == {SavingId, CurrentId, FixedTermId}

(* the objects main creates *)
MainClass(id) ==
    CASE id = SavingId    -> "SavingAccount"
      [] id = CurrentId   -> "CurrentAccount"
      [] id = FixedTermId -> "FixedTermAccount"

Range(s) == {s[k] : k \in 1..Len(s)}

SeqsUpTo(S, n) == UNION {[1..m -> S] : m \in 0..n}

(* where control is once the first loop has run out *)
AfterWithdrawable(dep) == IF Len(dep) > 0 THEN "d_deposit" ELSE "done"

InitClient ==
    /\ cls = [id \in ClientIds |-> MainClass(id)]
    \* a vector<WithdrawableAccount*> can only point to objects of its subclasses
    /\ withdrawableAccounts \in
          SeqsUpTo({id \in ClientIds : MainClass(id) \in WithdrawableAccount},
                   MaxWithdrawable)
    \* a vector<DepositOnlyAccount*> can point to any of the accounts
    /\ depositOnlyAccounts \in SeqsUpTo(ClientIds, MaxDepositOnly)
    /\ balance \in [ClientIds -> StartBalances]
    /\ last = NoCall
    /\ mirror = NoCall
    /\ pc = "idle"
    /\ i = 1
    /\ issued = << >>
    /\ start = balance

Record(c) == [op |-> c.op, id |-> c.id, amount |-> c.amount, outcome |-> c.outcome]

(* client->processTransactions(): entry, up to the first loop's test *)
ProcessTransactions ==
    /\ pc = "idle"
    /\ pc' = IF Len(withdrawableAccounts) > 0
             THEN "w_deposit"
             ELSE AfterWithdrawable(depositOnlyAccounts)
    /\ i' = 1
    /\ UNCHANGED <<cls, balance, last, mirror, withdrawableAccounts,
                   depositOnlyAccounts, issued, start>>

(* acc->deposit(1000) of the first loop *)
WithdrawableDeposit_skips_withdraw ==
    LET acc == withdrawableAccounts[i]
        r == deposit(cls[acc], balance[acc], ClientDepositAmount)
        c == Call("deposit", acc, cls[acc], ClientDepositAmount, balance[acc], r)
    IN
    /\ pc = "w_deposit"
    /\ balance' = [balance EXCEPT ![acc] = r.balance]
    /\ last' = c
    /\ issued' = Append(issued, Record(c))
    /\ IF i < Len(withdrawableAccounts)
       THEN pc' = "w_deposit" /\ i' = i + 1
       ELSE pc' = AfterWithdrawable(depositOnlyAccounts) /\ i' = 1
    /\ UNCHANGED <<cls, mirror, withdrawableAccounts, depositOnlyAccounts, start>>

WithdrawableDeposit ==
    LET acc == withdrawableAccounts[i]
        r == deposit(cls[acc], balance[acc], ClientDepositAmount)
        c == Call("deposit", acc, cls[acc], ClientDepositAmount, balance[acc], r)
    IN
    /\ pc = "w_deposit"
    /\ balance' = [balance EXCEPT ![acc] = r.balance]
    /\ last' = c
    /\ issued' = Append(issued, Record(c))
    /\ pc' = "w_withdraw"
    /\ UNCHANGED <<cls, mirror, withdrawableAccounts, depositOnlyAccounts, i, start>>

(* acc->withdraw(500) of the first loop, then the loop's increment and test *)
WithdrawableWithdraw ==
    LET acc == withdrawableAccounts[i]
        r == withdraw(cls[acc], balance[acc], ClientWithdrawAmount)
        c == Call("withdraw", acc, cls[acc], ClientWithdrawAmount, balance[acc], r)
    IN
    /\ pc = "w_withdraw"
    /\ balance' = [balance EXCEPT ![acc] = r.balance]
    /\ last' = c
    /\ issued' = Append(issued, Record(c))
    /\ IF i < Len(withdrawableAccounts)
       THEN pc' = "w_deposit" /\ i' = i + 1
       ELSE pc' = AfterWithdrawable(depositOnlyAccounts) /\ i' = 1
    /\ UNCHANGED <<cls, mirror, withdrawableAccounts, depositOnlyAccounts, start>>

(* acc->deposit(5000) of the second loop, then the loop's increment and test *)
DepositOnlyDeposit_writes_all ==
    LET acc == depositOnlyAccounts[i]
        r == deposit(cls[acc], balance[acc], DepositOnlyAmount)
        c == Call("deposit", acc, cls[acc], DepositOnlyAmount, balance[acc], r)
    IN
    /\ pc = "d_deposit"
    /\ balance' = [id \in DOMAIN balance |-> r.balance]
    /\ last' = c
    /\ issued' = Append(issued, Record(c))
    /\ IF i < Len(depositOnlyAccounts)
       THEN pc' = "d_deposit" /\ i' = i + 1
       ELSE pc' = "done" /\ i' = i
    /\ UNCHANGED <<cls, mirror, withdrawableAccounts, depositOnlyAccounts, start>>

DepositOnlyDeposit ==
    LET acc == depositOnlyAccounts[i]
        r == deposit(cls[acc], balance[acc], DepositOnlyAmount)
        c == Call("deposit", acc, cls[acc], DepositOnlyAmount, balance[acc], r)
    IN
    /\ pc = "d_deposit"
    /\ balance' = [balance EXCEPT ![acc] = r.balance]
    /\ last' = c
    /\ issued' = Append(issued, Record(c))
    /\ IF i < Len(depositOnlyAccounts)
       THEN pc' = "d_deposit" /\ i' = i + 1
       ELSE pc' = "done" /\ i' = i
    /\ UNCHANGED <<cls, mirror, withdrawableAccounts, depositOnlyAccounts, start>>

NextClient ==
    \/ ProcessTransactions
    \/ WithdrawableDeposit
    \/ WithdrawableWithdraw
    \/ DepositOnlyDeposit

SpecClient == InitClient /\ [][NextClient]_vars

---------------------------------------------------------------------------
(* Claims about single calls (Spec) *)

Exists(id) == id \in DOMAIN cls /\ cls[id] # "none"

\* C1: every account of every variant has balance >= 0 in every state
\* reachable by construction, deposit and withdraw calls.
C1_BalanceNeverNegative ==
    \A id \in DOMAIN cls : Exists(id) => balance[id] >= 0

\* C2: withdraw(a) on a SavingAccount, CurrentAccount or BankAccount with
\* balance b succeeds and leaves b - a when a <= b, and reports insufficient
\* funds and leaves b when a > b.
C2_WithdrawContract ==
    (/\ last.op = "withdraw"
     /\ last.cls \in {"SavingAccount", "CurrentAccount",
                      "BankAccount", "BankAccount_History"})
    => IF last.amount <= last.before
       THEN /\ last.outcome = "ok"
            /\ balance[last.id] = last.before - last.amount
       ELSE /\ last.outcome = "insufficient_funds"
            /\ balance[last.id] = last.before

\* C2 witness: a withdraw of the whole positive balance has succeeded.
C2_Witness ==
    /\ last.op = "withdraw"
    /\ last.cls = "SavingAccount"
    /\ last.amount = last.before
    /\ last.amount > 0
    /\ last.outcome = "ok"
    /\ balance[last.id] = 0

\* C3: deposit(a) with a > 0 on a SavingAccount, CurrentAccount or
\* FixedTermAccount with balance b succeeds and leaves exactly b + a.
C3_DepositAddsExactly ==
    (/\ last.op = "deposit"
     /\ last.cls \in {"SavingAccount", "CurrentAccount", "FixedTermAccount"}
     /\ last.amount > 0)
    => /\ last.outcome = "ok"
       /\ ~last.thrown
       /\ balance[last.id] = last.before + last.amount

\* C3 witness: a positive deposit onto a non-zero balance has been made.
C3_Witness ==
    /\ last.op = "deposit"
    /\ last.cls = "SavingAccount"
    /\ last.amount > 0
    /\ last.before > 0
    /\ balance[last.id] > last.amount

\* C5: for BankAccount, FixedDepositAccount, CheatAccount, SavingAccount and
\* CurrentAccount, withdraw(a) with 0 < a <= b succeeds and leaves b - a.
C5_WithdrawNeverForbidden ==
    (/\ last.op = "withdraw"
     /\ last.cls \in {"BankAccount", "BankAccount_History", "FixedDepositAccount",
                      "CheatAccount", "SavingAccount", "CurrentAccount"}
     /\ 0 < last.amount
     /\ last.amount <= last.before)
    => /\ last.outcome = "ok"
       /\ balance[last.id] = last.before - last.amount

\* C6: constructing a BankAccount or a subclass with initial balance b fails
\* with an invalid-argument error and yields no account when b < 0, and
\* yields an account with balance exactly b when b >= 0.
C6_ConstructionValidated ==
    (/\ last.op = "construct"
     /\ last.cls \in BankAccountFamily)
    => IF last.amount < 0
       THEN /\ last.outcome = "invalid_argument"
            /\ last.thrown
            /\ cls[last.id] = "none"
       ELSE /\ last.outcome = "ok"
            /\ cls[last.id] = last.cls
            /\ balance[last.id] = last.amount

\* C6 witness: a subclass constructor has been refused a negative balance.
C6_Witness ==
    /\ last.op = "construct"
    /\ last.cls = "CheatAccount"
    /\ last.amount < 0
    /\ last.outcome = "invalid_argument"
    /\ ~Exists(last.id)

\* C9: every deposit that completes leaves the balance no smaller than
\* before the call and non-negative, for every amount deposit accepts.
C9_DepositNeverDecreases ==
    (/\ last.op = "deposit"
     /\ last.outcome = "ok")
    => /\ balance[last.id] >= last.before
       /\ balance[last.id] >= 0

---------------------------------------------------------------------------
(* Claim about substitution (SpecSubst) *)

\* C4: after every step of one sequence of deposit and withdraw calls applied
\* to a SavingAccount and to a CurrentAccount, the two balances are equal and
\* the call had the same outcome on both.
C4_Substitutable ==
    /\ balance[SavingId] = balance[CurrentId]
    /\ last.op = mirror.op
    /\ last.amount = mirror.amount
    /\ last.outcome = mirror.outcome
    /\ last.thrown = mirror.thrown

\* C4 witness: after deposits left money on both, a withdraw was refused.
C4_Witness ==
    /\ last.op = "withdraw"
    /\ last.cls = "SavingAccount"
    /\ mirror.cls = "CurrentAccount"
    /\ last.outcome = "insufficient_funds"
    /\ balance[SavingId] > 0

---------------------------------------------------------------------------
(* Claims about BankClient::processTransactions (SpecClient) *)

RECURSIVE DepositThenWithdrawEach(_)
DepositThenWithdrawEach(accs) ==
    IF accs = << >>
    THEN << >>
    ELSE << <<"deposit", Head(accs), 1000>>, <<"withdraw", Head(accs), 500>> >>
         \o DepositThenWithdrawEach(Tail(accs))

RECURSIVE DepositEach(_)
DepositEach(accs) ==
    IF accs = << >>
    THEN << >>
    ELSE << <<"deposit", Head(accs), 5000>> >> \o DepositEach(Tail(accs))

CallsClaimed ==
    DepositThenWithdrawEach(withdrawableAccounts) \o DepositEach(depositOnlyAccounts)

CallsMade == [k \in 1..Len(issued) |-> <<issued[k].op, issued[k].id, issued[k].amount>>]

Occurrences(s, id) == Cardinality({k \in 1..Len(s) : s[k] = id})

Distinct(s) == \A j, k \in 1..Len(s) : j # k => s[j] # s[k]

CallsInOrder ==
    /\ Len(CallsMade) <= Len(CallsClaimed)
    /\ CallsMade = SubSeq(CallsClaimed, 1, Len(CallsMade))
    /\ pc = "done" => CallsMade = CallsClaimed

WithdrawNeverRefused ==
    \A k \in 1..Len(issued) :
        (issued[k].op = "withdraw" /\ start[issued[k].id] >= 0)
        => issued[k].outcome = "ok"

\* C7 (as stated): processTransactions makes, per withdraw-capable account in
\* collection order, one deposit(1000) immediately followed by one
\* withdraw(500), and only afterwards one deposit(5000) per deposit-only
\* account; for a starting balance >= 0 that withdraw never reports
\* insufficient funds and each withdraw-capable account ends with its starting
\* balance + 500.
C7_Original ==
    /\ CallsInOrder
    /\ WithdrawNeverRefused
    /\ pc = "done" =>
          \A id \in Range(withdrawableAccounts) :
              start[id] >= 0 => balance[id] = start[id] + 500

\* C7 (amended): the calls are made per entry of the collections as stated and
\* no withdraw is refused for a starting balance >= 0; an account with a
\* starting balance >= 0 ends with that balance + 500 for each time it is
\* listed in the withdraw-capable collection + 5000 for each time it is listed
\* in the deposit-only collection.
C7_ProcessTransactionsOrder ==
    /\ CallsInOrder
    /\ WithdrawNeverRefused
    /\ pc = "done" =>
          \A id \in Range(withdrawableAccounts) :
              start[id] >= 0 =>
                  balance[id] = start[id]
                                + 500 * Occurrences(withdrawableAccounts, id)
                                + 5000 * Occurrences(depositOnlyAccounts, id)

\* C7 witness: the run is over for main's collections with the SavingAccount
\* also listed in the deposit-only collection; the CurrentAccount, listed
\* once, ends with its starting balance + 500.
C7_Witness ==
    /\ pc = "done"
    /\ withdrawableAccounts = <<SavingId, CurrentId>>
    /\ depositOnlyAccounts = <<FixedTermId, SavingId>>
    /\ Len(issued) = 6
    /\ start[SavingId] = 0
    /\ balance[SavingId] = 5500
    /\ start[CurrentId] = 100
    /\ balance[CurrentId] = 600

NoWithdrawOn(ids) ==
    \A k \in 1..Len(issued) : issued[k].op = "withdraw" => issued[k].id \notin ids

\* C8 (as stated): for any contents of the two collections, no withdraw is
\* ever applied to an account of the deposit-only collection, and the balance
\* of such an account never decreases from one state to the next.
C8_Original ==
    [][/\ NoWithdrawOn(Range(depositOnlyAccounts))'
       /\ \A id \in Range(depositOnlyAccounts) : balance'[id] >= balance[id]]_vars

(* accounts that only the deposit-only loop reaches: every FixedTermAccount *)
(* is one, since it cannot be listed in the withdraw-capable collection     *)
OnlyDepositedTo ==
    {id \in DOMAIN cls : cls[id] = "FixedTermAccount"}
    \cup (Range(depositOnlyAccounts) \ Range(withdrawableAccounts))

\* C8 (amended): for any contents of the two collections, no withdraw is ever
\* applied to a FixedTermAccount, nor to any account of the deposit-only
\* collection that is not also listed in the withdraw-capable collection, and
\* the balance of such an account never decreases from one state to the next.
C8_DepositOnlyNeverWithdrawn ==
    [][/\ NoWithdrawOn(OnlyDepositedTo)'
       /\ \A id \in OnlyDepositedTo : balance'[id] >= balance[id]]_vars

\* C8 witness: the run is over, withdraws were made, and a FixedTermAccount
\* of the deposit-only collection received its deposit.
C8_Witness ==
    /\ pc = "done"
    /\ \E k \in 1..Len(issued) : issued[k].op = "withdraw"
    /\ \E id \in Range(depositOnlyAccounts) :
          /\ cls[id] = "FixedTermAccount"
          /\ balance[id] = start[id] + 5000

(* the account the next call of processTransactions is made on *)
Target ==
    CASE pc \in {"w_deposit", "w_withdraw"} -> {withdrawableAccounts[i]}
      [] pc = "d_deposit" -> {depositOnlyAccounts[i]}
      [] OTHER -> {}

\* C10: every step of processTransactions leaves unchanged the balance of
\* every account other than the one the call is made on, and the contents and
\* order of both collections.
C10_Frame ==
    [][/\ \A id \in DOMAIN balance : id \notin Target => balance'[id] = balance[id]
       /\ DOMAIN balance' = DOMAIN balance
       /\ cls' = cls
       /\ withdrawableAccounts' = withdrawableAccounts
       /\ depositOnlyAccounts' = depositOnlyAccounts]_vars

\* C10 witness: calls have changed one account while another account of the
\* collections still holds its starting balance.
C10_Witness ==
    /\ Len(issued) >= 1
    /\ balance[last.id] # start[last.id]
    /\ \E id \in DOMAIN balance : id # last.id /\ balance[id] = start[id]
    /\ Len(withdrawableAccounts) + Len(depositOnlyAccounts) >= 2
    /\ Distinct(withdrawableAccounts \o depositOnlyAccounts)

=============================================================================
